---- MODULE Spec2Model ----
(***************************************************************************)
(* Petrophysical LAS Viewer (src/app.py): a Streamlit script that is run   *)
(* top to bottom on every interaction.  The model follows the script block *)
(* by block.  Spec is the run of the script as written (it ends at the     *)
(* st.stop() of line 94).  SpecTrack and SpecTops apply the blocks written *)
(* after line 94 (depth conversion, formation tops, make_track, CSV        *)
(* export) to inputs drawn from bounded sets.                              *)
(*                                                                         *)
(* Numbers are exact rationals <<n, d>> with d > 0; <<0, 0>> is NaN.       *)
(* Texts typed by the user are sequences of one-character strings.         *)
(***************************************************************************)
EXTENDS Integers, Sequences, FiniteSets, TLC

VARIABLES
    pc,               \* the line of the script the run is at
    uploaded_file,    \* st.sidebar.file_uploader value
    unit_system,      \* st.sidebar.radio value
    search_query,     \* st.sidebar.text_input value
    banner,           \* what st.success / st.error / st.info showed in this run
    las,              \* lasio.read result: sequence of curves
    available,
    filtered_curves,
    selectors,        \* the three st.sidebar.multiselect calls: options, default
    track1, track2, track3,
    depth_curve,
    depth,
    depth_unit,
    tops_data,        \* st.sidebar.text_area value
    tops_dict,
    figs,             \* what st.plotly_chart was given, in order
    df,               \* the exported DataFrame
    raised            \* the exception that ended the run, "" when none

vars == <<pc, uploaded_file, unit_system, search_query, banner, las, available,
          filtered_curves, selectors, track1, track2, track3, depth_curve, depth,
          depth_unit, tops_data, tops_dict, figs, df, raised>>

(***************************************************************************)
(* Bounds of the model.                                                    *)
(***************************************************************************)
MaxCurves == 2      \* curves of an uploaded document (Spec)
MaxQuery == 2       \* characters of a search query (Spec)
MaxSamples == 2     \* samples per curve (SpecTrack)
MaxNames == 2       \* names in a track's curve list (SpecTrack)
MaxLineLen == 3     \* characters per formation-tops line (SpecTops)
MaxLines == 2       \* lines of formation-tops text (SpecTops)

None == "None"

(***************************************************************************)
(* Generic helpers.                                                        *)
(***************************************************************************)
SeqsUpTo(S, n) == UNION {[1..k -> S] : k \in 0..n}

InSeq(x, s) == \E i \in DOMAIN s : s[i] = x

(***************************************************************************)
(* Numbers: float arithmetic as used by the script.                        *)
(***************************************************************************)
NaN == <<0, 0>>
Num(n) == <<n, 1>>
IsNaN(v) == v[2] = 0

\* x * factor, elementwise part of "data * 3.28084"
Mul(v, f) == IF IsNaN(v) THEN NaN ELSE <<v[1] * f[1], v[2] * f[2]>>
RECURSIVE Gcd(_, _)
Gcd(a, b) == IF b = 0 THEN a ELSE Gcd(b, a % b)
\* the numerators of a and b over their common denominator
Over(a, b) == a[1] * (b[2] \div Gcd(a[2], b[2]))
\* ==, !=, >, < of IEEE floats: every comparison with NaN is False but !=
NumEq(a, b) == ~IsNaN(a) /\ ~IsNaN(b) /\ Over(a, b) = Over(b, a)
NumNe(a, b) == ~NumEq(a, b)
NumGt(a, b) == ~IsNaN(a) /\ ~IsNaN(b) /\ Over(a, b) > Over(b, a)
NumLt(a, b) == NumGt(b, a)

\* -999.25
Sentinel == <<-3997, 4>>
\* 3.28084
FtPerM == <<82021, 25000>>
\* 62.428
LbFt3PerGCm3 == <<15607, 250>>
gr_threshold == 75

(***************************************************************************)
(* Strings: str.lower, "in", str.split, str.strip, float().                *)
(***************************************************************************)
UpperLetters == <<"A","B","C","D","E","F","G","H","I","J","K","L","M",
                  "N","O","P","Q","R","S","T","U","V","W","X","Y","Z">>
LowerLetters == <<"a","b","c","d","e","f","g","h","i","j","k","l","m",
                  "n","o","p","q","r","s","t","u","v","w","x","y","z">>
DigitChars == <<"0","1","2","3","4","5","6","7","8","9">>
Whitespace == {" ", "\n", "\t", "\r"}

LowerChar(c) ==
    IF InSeq(c, UpperLetters)
    THEN LowerLetters[CHOOSE i \in DOMAIN UpperLetters : UpperLetters[i] = c]
    ELSE c
Lower(s) == [i \in DOMAIN s |-> LowerChar(s[i])]

\* needle in hay
Contains(hay, needle) ==
    \E i \in 0..(Len(hay) - Len(needle)) : SubSeq(hay, i + 1, i + Len(needle)) = needle

RECURSIVE Split(_, _)
Split(s, sep) ==
    IF ~InSeq(sep, s) THEN <<s>>
    ELSE LET i == CHOOSE j \in DOMAIN s : s[j] = sep /\ \A k \in 1..(j - 1) : s[k] # sep
         IN  <<SubSeq(s, 1, i - 1)>> \o Split(SubSeq(s, i + 1, Len(s)), sep)

RECURSIVE LStrip(_)
LStrip(s) == IF s # <<>> /\ Head(s) \in Whitespace THEN LStrip(Tail(s)) ELSE s
RECURSIVE RStrip(_)
RStrip(s) ==
    IF s # <<>> /\ s[Len(s)] \in Whitespace THEN RStrip(SubSeq(s, 1, Len(s) - 1)) ELSE s
Strip(s) == RStrip(LStrip(s))

RECURSIVE Join(_, _)
Join(lines, sep) ==
    IF lines = <<>> THEN <<>>
    ELSE IF Len(lines) = 1 THEN lines[1]
    ELSE lines[1] \o <<sep>> \o Join(Tail(lines), sep)

\* float(s) on texts of letters, digits, blanks: a run of digits between optional
\* blanks is a number, anything else raises ValueError
FloatOk(s) == Strip(s) # <<>> /\ \A i \in DOMAIN Strip(s) : InSeq(Strip(s)[i], DigitChars)
DigitVal(c) == (CHOOSE i \in DOMAIN DigitChars : DigitChars[i] = c) - 1
RECURSIVE DecimalVal(_)
DecimalVal(s) ==
    IF s = <<>> THEN 0 ELSE 10 * DecimalVal(SubSeq(s, 1, Len(s) - 1)) + DigitVal(s[Len(s)])
Float(s) == Num(DecimalVal(Strip(s)))

(***************************************************************************)
(* The LAS document as lasio gives it: curves in file order, each with a   *)
(* unique mnemonic, a unit and a data array; all arrays have one length.   *)
(***************************************************************************)
Curve(m, u, d) == [mnemonic |-> m, unit |-> u, data |-> d]
Keys(doc) == [i \in DOMAIN doc |-> doc[i].mnemonic]
HasCurve(doc, m) == InSeq(m, Keys(doc))
CurveOf(doc, m) == doc[CHOOSE i \in DOMAIN doc : doc[i].mnemonic = m]
NSamples(doc) == IF doc = <<>> THEN 0 ELSE Len(doc[1].data)

Spell ==
    [m \in {"DEPT", "DEPTH", "MD", "TVD", "GR", "RHOB", "RT", "XX"} |->
        CASE m = "DEPT"  -> <<"D","E","P","T">>
          [] m = "DEPTH" -> <<"D","E","P","T","H">>
          [] m = "MD"    -> <<"M","D">>
          [] m = "TVD"   -> <<"T","V","D">>
          [] m = "GR"    -> <<"G","R">>
          [] m = "RHOB"  -> <<"R","H","O","B">>
          [] m = "RT"    -> <<"R","T">>
          [] m = "XX"    -> <<"X","X">>]

unit_conversions ==
    [u \in {"m", "g/cm3", "us/ft", "ohm.m", "in", "m3/m3"} |->
        CASE u = "m"     -> [label |-> "ft",     fn |-> "x * k", k |-> FtPerM]
          [] u = "g/cm3" -> [label |-> "lb/ft3", fn |-> "x * k", k |-> LbFt3PerGCm3]
          [] u = "us/ft" -> [label |-> "us/ft",  fn |-> "x",     k |-> Num(1)]
          [] u = "ohm.m" -> [label |-> "ohm.m",  fn |-> "x",     k |-> Num(1)]
          [] u = "in"    -> [label |-> "in",     fn |-> "x",     k |-> Num(1)]
          [] u = "m3/m3" -> [label |-> "v/v",    fn |-> "x",     k |-> Num(1)]]

\* convert_fn(data) for the registry entry e: the lambda applied to the array
convert_fn(e, data) ==
    IF e.fn = "x * k" THEN [i \in DOMAIN data |-> Mul(data[i], e.k)] ELSE data

depth_mnemonics == <<"DEPT", "DEPTH", "MD", "TVD">>

(***************************************************************************)
(* The inputs of a run of the script (Spec).                               *)
(***************************************************************************)
Mnemonics == {"DEPT", "DEPTH", "MD", "TVD", "GR", "RHOB", "RT"}
UnitOfMnemonic(m) ==
    CASE m = "GR" -> "GAPI" [] m = "RHOB" -> "g/cm3" [] m = "RT" -> "ohm.m" [] OTHER -> "m"
SampleOfMnemonic(m) ==
    CASE m = "GR" -> <<Num(80)>> [] m = "RHOB" -> <<Sentinel>> [] m = "RT" -> <<NaN>>
      [] m = "DEPT" -> <<Num(100)>> [] m = "DEPTH" -> <<Num(200)>>
      [] m = "MD" -> <<Num(300)>> [] m = "TVD" -> <<Num(400)>>
Documents ==
    {[i \in DOMAIN ms |-> Curve(ms[i], UnitOfMnemonic(ms[i]), SampleOfMnemonic(ms[i]))] :
        ms \in {s \in SeqsUpTo(Mnemonics, MaxCurves) :
                    \A i, j \in DOMAIN s : i # j => s[i] # s[j]}}
NoFile == [kind |-> "none", doc |-> <<>>]
Files == {NoFile, [kind |-> "bad", doc |-> <<>>]} \cup
         {[kind |-> "las", doc |-> d] : d \in Documents}
Queries == SeqsUpTo({"d", "G", "r"}, MaxQuery)
UnitSystems == {"Metric", "Imperial"}

NoDf == [columns |-> <<>>, rows |-> 0]

(***************************************************************************)
(* The script up to line 94.                                               *)
(***************************************************************************)
\* lines 67-69
FilterCurves(avail, query) ==
    IF query # <<>>
    THEN SelectSeq(avail, LAMBDA c : Contains(Lower(Spell[c]), Lower(query)))
    ELSE avail

\* lines 76-78
get_default_curves(preferred, avail, num) ==
    LET defaults == SelectSeq(preferred, LAMBDA c : InSeq(c, avail))
    IN  IF defaults # <<>> THEN defaults
        ELSE SubSeq(avail, 1, IF num < Len(avail) THEN num ELSE Len(avail))

\* one st.sidebar.multiselect call: what it was given
Multiselect(options, default) == [options |-> options, default |-> default]

\* a resolver that takes the first depth curve in file order instead
ResolveDepthCurveFileOrder(doc) ==
    LET hits == SelectSeq(Keys(doc), LAMBDA mn : InSeq(mn, depth_mnemonics))
    IN  IF hits = <<>> THEN None ELSE Head(hits)

\* line 88: next((mn for mn in depth_mnemonics if mn in las.keys()), None)
ResolveDepthCurve(doc) ==
    LET hits == SelectSeq(depth_mnemonics, LAMBDA mn : InSeq(mn, Keys(doc)))
    IN  IF hits = <<>> THEN None ELSE Head(hits)

\* the page is opened: no file yet, the radio on its first option, no query, and
\* none of the script's names assigned
Init ==
    /\ pc = "L55"
    /\ uploaded_file = NoFile
    /\ unit_system = "Metric"
    /\ search_query = <<>>
    /\ banner = <<>>
    /\ las = <<>>
    /\ available = <<>>
    /\ filtered_curves = <<>>
    /\ selectors = <<>>
    /\ track1 = <<>> /\ track2 = <<>> /\ track3 = <<>>
    /\ depth_curve = None
    /\ depth = <<>>
    /\ depth_unit = None
    /\ tops_data = <<>>
    /\ tops_dict = <<>>
    /\ figs = <<>>
    /\ df = NoDf
    /\ raised = ""

\* Streamlit runs the script again from the top: none of its names is assigned
Restart ==
    /\ pc' = "L55"
    /\ banner' = <<>>
    /\ las' = <<>>
    /\ available' = <<>>
    /\ filtered_curves' = <<>>
    /\ selectors' = <<>>
    /\ track1' = <<>> /\ track2' = <<>> /\ track3' = <<>>
    /\ depth_curve' = None
    /\ depth' = <<>>
    /\ UNCHANGED <<depth_unit, tops_data, tops_dict, figs, df, raised>>

\* line 22: the user uploads, replaces or removes the file
ChangeFile ==
    /\ pc \in {"stopped", "idle"}
    /\ uploaded_file' \in Files \ {uploaded_file}
    /\ UNCHANGED <<unit_system, search_query>>
    /\ Restart

\* line 23: the user picks the other unit system
ChangeUnitSystem ==
    /\ pc \in {"stopped", "idle"}
    /\ unit_system' \in UnitSystems \ {unit_system}
    /\ UNCHANGED <<uploaded_file, search_query>>
    /\ Restart

\* line 68: the user types in the search box (shown once a file was parsed)
ChangeSearch ==
    /\ pc = "stopped"
    /\ uploaded_file.kind = "las"
    /\ search_query' \in Queries \ {search_query}
    /\ UNCHANGED <<uploaded_file, unit_system>>
    /\ Restart

\* lines 181-182
NoUpload ==
    /\ pc = "L55"
    /\ uploaded_file.kind = "none"
    /\ banner' = Append(banner, "info: upload a .las file")
    /\ pc' = "idle"
    /\ UNCHANGED <<uploaded_file, unit_system, search_query, las, available,
                   filtered_curves, selectors, track1, track2, track3, depth_curve,
                   depth, depth_unit, tops_data, tops_dict, figs, df, raised>>

\* lines 55-65: lasio.read either returns the document or raises
LoadParse ==
    /\ pc = "L55"
    /\ uploaded_file.kind # "none"
    /\ IF uploaded_file.kind = "las"
       THEN /\ las' = uploaded_file.doc
            /\ banner' = Append(banner, "success: loaded")
            /\ available' = Keys(uploaded_file.doc)
            /\ pc' = "L68"
       ELSE /\ banner' = Append(banner, "error: failed to read")
            /\ pc' = "stopped"
            /\ UNCHANGED <<las, available>>
    /\ UNCHANGED <<uploaded_file, unit_system, search_query, filtered_curves, selectors,
                   track1, track2, track3, depth_curve, depth, depth_unit, tops_data,
                   tops_dict, figs, df, raised>>

\* lines 67-69
SearchFilter ==
    /\ pc = "L68"
    /\ filtered_curves' = FilterCurves(available, search_query)
    /\ pc' = "L81"
    /\ UNCHANGED <<uploaded_file, unit_system, search_query, banner, las, available,
                   selectors, track1, track2, track3, depth_curve, depth, depth_unit,
                   tops_data, tops_dict, figs, df, raised>>

\* lines 80-83: the three selectors; each returns its default on a first render
SelectTracks ==
    /\ pc = "L81"
    /\ LET d1 == get_default_curves(<<"GR">>, available, 1)
           d2 == get_default_curves(<<"RHOB", "NPHI">>, available, 2)
           d3 == get_default_curves(<<"RT">>, available, 1)
       IN  /\ selectors' = << Multiselect(filtered_curves, d1),
                              Multiselect(filtered_curves, d2),
                              Multiselect(filtered_curves, d3) >>
           /\ track1' = d1
           /\ track2' = d2
           /\ track3' = d3
    /\ pc' = "L87"
    /\ UNCHANGED <<uploaded_file, unit_system, search_query, banner, las, available,
                   filtered_curves, depth_curve, depth, depth_unit, tops_data,
                   tops_dict, figs, df, raised>>

\* lines 86-93
ResolveDepth ==
    /\ pc = "L87"
    /\ LET dc == ResolveDepthCurve(las)
       IN  /\ depth_curve' = dc
           /\ IF dc # None
              THEN /\ depth' = CurveOf(las, dc).data
                   /\ UNCHANGED banner
              ELSE /\ banner' = Append(banner, "error: no valid depth column")
                   /\ UNCHANGED depth
    /\ pc' = "L94"
    /\ UNCHANGED <<uploaded_file, unit_system, search_query, las, available,
                   filtered_curves, selectors, track1, track2, track3, depth_unit,
                   tops_data, tops_dict, figs, df, raised>>

\* line 94: st.stop(), at the indentation of the "if depth_curve:" statement
Stop94 ==
    /\ pc = "L94"
    /\ pc' = "stopped"
    /\ UNCHANGED <<uploaded_file, unit_system, search_query, banner, las, available,
                   filtered_curves, selectors, track1, track2, track3, depth_curve,
                   depth, depth_unit, tops_data, tops_dict, figs, df, raised>>

Next ==
    \/ ChangeFile
    \/ ChangeUnitSystem
    \/ ChangeSearch
    \/ NoUpload
    \/ LoadParse
    \/ SearchFilter
    \/ SelectTracks
    \/ ResolveDepth
    \/ Stop94

Spec == Init /\ [][Next]_vars

(***************************************************************************)
(* The script after line 94: depth conversion, formation tops, make_track, *)
(* the three plots and the CSV export.                                     *)
(***************************************************************************)
\* a dict keeps one value per key, at the place the key was first inserted
RECURSIVE DictSet(_, _, _)
DictSet(d, key, value) ==
    IF d = <<>> THEN << [key |-> key, value |-> value] >>
    ELSE IF Head(d).key = key THEN << [key |-> key, value |-> value] >> \o Tail(d)
    ELSE << Head(d) >> \o DictSet(Tail(d), key, value)

\* line 104: the lines that split into exactly two fields, split
TopsFields(text) ==
    LET lines == Split(text, "\n")
        two == SelectSeq(lines, LAMBDA line : Len(Split(line, ",")) = 2)
    IN  [i \in DOMAIN two |-> Split(two[i], ",")]

\* line 107: float() raises ValueError on the first field it cannot parse
TopsRaise(tops) == \E i \in DOMAIN tops : ~FloatOk(Strip(tops[i][2]))

\* line 107: {name.strip(): float(depth.strip()) for name, depth in tops}
RECURSIVE TopsDict(_, _)
TopsDict(tops, d) ==
    IF tops = <<>> THEN d
    ELSE TopsDict(Tail(tops), DictSet(d, Strip(Head(tops)[1]), Float(Strip(Head(tops)[2]))))

\* data[mask]: the index positions a boolean mask keeps (in order)
MaskIdx(mask) == SelectSeq([i \in DOMAIN mask |-> i], LAMBDA i : mask[i])
Take(arr, idx) == [j \in DOMAIN idx |-> arr[idx[j]]]

\* lines 123-129: the curve's trace. idx is the mask's positions, kept beside x and y
MainTrace(curve, unit_label, data) ==
    LET mask == [i \in DOMAIN data |-> NumNe(data[i], Sentinel)]
    IN  [name |-> <<curve, unit_label>>, showlegend |-> TRUE, curve |-> curve,
         idx |-> MaskIdx(mask), x |-> Take(data, MaskIdx(mask)),
         y |-> Take(depth, MaskIdx(mask))]

\* lines 133-142
ShaleTrace(curve, data) ==
    LET shale_mask == [i \in DOMAIN data |->
                          NumGt(data[i], Num(gr_threshold)) /\ NumNe(data[i], Sentinel)]
    IN  [name |-> <<"Shale Zone">>, showlegend |-> FALSE, curve |-> curve,
         idx |-> MaskIdx(shale_mask), x |-> Take(data, MaskIdx(shale_mask)),
         y |-> Take(depth, MaskIdx(shale_mask))]

\* a conversion that forgets to test the unit system
DisplayDataAlways(curve) ==
    LET c == CurveOf(las, curve)
    IN  IF c.unit \in DOMAIN unit_conversions
        THEN [unit_label |-> unit_conversions[c.unit].label,
              data |-> convert_fn(unit_conversions[c.unit], c.data)]
        ELSE [unit_label |-> c.unit, data |-> c.data]

\* lines 115-121: the curve's data and label under the unit system
DisplayData(curve) ==
    LET c == CurveOf(las, curve)
    IN  IF unit_system = "Imperial" /\ c.unit \in DOMAIN unit_conversions
        THEN [unit_label |-> unit_conversions[c.unit].label,
              data |-> convert_fn(unit_conversions[c.unit], c.data)]
        ELSE [unit_label |-> c.unit, data |-> c.data]

\* lines 113-142: the loop over curve_names. acc.data is the local name "data",
\* acc.bound whether it was assigned
RECURSIVE CurveLoop(_, _, _)
CurveLoop(curve_names, highlight_shale, acc) ==
    IF curve_names = <<>> THEN acc
    ELSE LET curve == Head(curve_names) IN
         IF HasCurve(las, curve)
         THEN LET dd == DisplayData(curve)
                  main == << MainTrace(curve, dd.unit_label, dd.data) >>
                  shale == IF highlight_shale /\ curve = "GR"
                           THEN << ShaleTrace(curve, dd.data) >> ELSE <<>>
              IN  CurveLoop(Tail(curve_names), highlight_shale,
                            [traces |-> acc.traces \o main \o shale,
                             data |-> dd.data, bound |-> TRUE])
         ELSE CurveLoop(Tail(curve_names), highlight_shale, acc)

\* the builtins min and max over an array: keep the first, replace on < (on >)
RECURSIVE PyMin(_, _)
PyMin(arr, m) ==
    IF arr = <<>> THEN m
    ELSE PyMin(Tail(arr), IF NumLt(Head(arr), m) THEN Head(arr) ELSE m)
RECURSIVE PyMax(_, _)
PyMax(arr, m) ==
    IF arr = <<>> THEN m
    ELSE PyMax(Tail(arr), IF NumGt(Head(arr), m) THEN Head(arr) ELSE m)

\* lines 145-148: one shape and one annotation per entry of tops_dict
TopsMarkers(data) ==
    [i \in DOMAIN tops_dict |->
        [x0 |-> PyMin(Tail(data), Head(data)), x1 |-> PyMax(Tail(data), Head(data)),
         y |-> tops_dict[i].value, text |-> tops_dict[i].key]]

\* lines 110-157
make_track(curve_names, highlight_shale) ==
    LET loop == CurveLoop(curve_names, highlight_shale,
                          [traces |-> <<>>, data |-> <<>>, bound |-> FALSE])
        err == IF tops_dict = <<>> THEN ""
               ELSE IF ~loop.bound THEN "UnboundLocalError: data"
               ELSE IF loop.data = <<>> THEN "ValueError: min() arg is an empty sequence"
               ELSE ""
    IN  [raised |-> err,
         traces |-> loop.traces,
         markers |-> IF err = "" THEN TopsMarkers(loop.data) ELSE <<>>,
         yaxis |-> <<"Depth", depth_unit>>]

\* lines 175-178: the DataFrame. A dict of columns keeps one column per name
RECURSIVE CurveColumns(_, _)
CurveColumns(selected_curves, d) ==
    IF selected_curves = <<>> THEN d
    ELSE CurveColumns(Tail(selected_curves),
                      DictSet(d, Head(selected_curves),
                              CurveOf(las, Head(selected_curves)).data))
ExportFrame(selected_curves) ==
    LET cols == DictSet(CurveColumns(selected_curves, <<>>), "Depth", depth)
    IN  [columns |-> cols, rows |-> Len(cols[1].value)]

\* lines 96-99
ConvertDepth ==
    /\ pc = "L96"
    /\ IF unit_system = "Imperial"
       THEN /\ depth' = [i \in DOMAIN depth |-> Mul(depth[i], FtPerM)]
            /\ depth_unit' = "ft"
       ELSE /\ depth' = depth
            /\ depth_unit' = "m"
    /\ pc' = "L103"
    /\ UNCHANGED <<uploaded_file, unit_system, search_query, banner, las, available,
                   filtered_curves, selectors, track1, track2, track3, depth_curve,
                   tops_data, tops_dict, figs, df, raised>>

\* lines 101-107
ParseTops ==
    /\ pc = "L103"
    /\ LET tops == TopsFields(tops_data)
       IN  IF TopsRaise(tops)
           THEN /\ raised' = "ValueError: could not convert string to float"
                /\ pc' = "raised"
                /\ UNCHANGED tops_dict
           ELSE /\ tops_dict' = TopsDict(tops, <<>>)
                /\ pc' = "L163"
                /\ UNCHANGED raised
    /\ UNCHANGED <<uploaded_file, unit_system, search_query, banner, las, available,
                   filtered_curves, selectors, track1, track2, track3, depth_curve,
                   depth, depth_unit, tops_data, figs, df>>

\* one "if trackN: st.plotly_chart(make_track(trackN, ...))" statement
PlotTrack(at, track, highlight_shale, to) ==
    /\ pc = at
    /\ IF track # <<>>
       THEN LET fig == make_track(track, highlight_shale)
            IN  IF fig.raised # ""
                THEN /\ raised' = fig.raised
                     /\ pc' = "raised"
                     /\ UNCHANGED figs
                ELSE /\ figs' = Append(figs, [track |-> at, highlight |-> highlight_shale,
                                              curve_names |-> track, fig |-> fig])
                     /\ pc' = to
                     /\ UNCHANGED raised
       ELSE /\ pc' = to
            /\ UNCHANGED <<figs, raised>>
    /\ UNCHANGED <<uploaded_file, unit_system, search_query, banner, las, available,
                   filtered_curves, selectors, track1, track2, track3, depth_curve,
                   depth, depth_unit, tops_data, tops_dict, df>>

\* lines 163-164
Plot1 == PlotTrack("L163", track1, TRUE, "L166")
\* lines 166-167
Plot2 == PlotTrack("L166", track2, FALSE, "L169")
\* lines 169-170
Plot3 == PlotTrack("L169", track3, FALSE, "L173")

\* lines 173-179
Export ==
    /\ pc = "L173"
    /\ LET selected_curves == track1 \o track2 \o track3
       IN  IF selected_curves = <<>>
           THEN /\ pc' = "done"
                /\ UNCHANGED <<df, raised>>
           ELSE IF \E i \in DOMAIN selected_curves : ~HasCurve(las, selected_curves[i])
           THEN /\ raised' = "KeyError"
                /\ pc' = "raised"
                /\ UNCHANGED df
           ELSE /\ df' = ExportFrame(selected_curves)
                /\ pc' = "done"
                /\ UNCHANGED raised
    /\ UNCHANGED <<uploaded_file, unit_system, search_query, banner, las, available,
                   filtered_curves, selectors, track1, track2, track3, depth_curve,
                   depth, depth_unit, tops_data, tops_dict, figs>>

NextRender ==
    \/ ConvertDepth
    \/ ParseTops
    \/ Plot1
    \/ Plot2
    \/ Plot3
    \/ Export

(***************************************************************************)
(* Inputs of the blocks after line 94.  The run is taken up at line 96     *)
(* with the document parsed and the depth curve resolved (line 91).        *)
(***************************************************************************)
Samples == {NaN, Sentinel, Num(30), Num(80)}
Units == {"m", "m3/m3", "GAPI"}
TrackNames == {"GR", "RHOB", "XX"}
DepthData == <<Num(100), Num(200), Num(300), Num(400)>>
RhobData == <<Num(2), Sentinel, NaN, Num(3)>>

TrackDocuments ==
    {<< Curve("DEPT", "m", SubSeq(DepthData, 1, Len(d))),
        Curve("GR", u, d),
        Curve("RHOB", "g/cm3", SubSeq(RhobData, 1, Len(d))) >> :
        u \in Units, d \in SeqsUpTo(Samples, MaxSamples) \ {<<>>}}

\* the user's selection: one of the three tracks holds a list of names
TrackLists ==
    UNION {{ [k \in 1..3 |-> IF k = j THEN names ELSE <<>>] :
                 names \in SeqsUpTo(TrackNames, MaxNames) } : j \in 1..3}

InitRender(docs, tracks, texts) ==
    /\ pc = "L96"
    /\ uploaded_file \in {[kind |-> "las", doc |-> d] : d \in docs}
    /\ las = uploaded_file.doc
    /\ unit_system \in UnitSystems
    /\ search_query = <<>>
    /\ banner = <<"success: loaded">>
    /\ available = Keys(las)
    /\ filtered_curves = available
    /\ selectors = <<>>
    /\ \E t \in tracks : track1 = t[1] /\ track2 = t[2] /\ track3 = t[3]
    /\ depth_curve = ResolveDepthCurve(las)
    /\ depth = CurveOf(las, depth_curve).data
    /\ depth_unit = None
    /\ tops_data \in texts
    /\ tops_dict = <<>>
    /\ figs = <<>>
    /\ df = NoDf
    /\ raised = ""

InitTrack == InitRender(TrackDocuments, TrackLists, {<<>>, <<"A", ",", "1">>})
SpecTrack == InitTrack /\ [][NextRender]_vars

TopsChars == {"A", "1", "2", ",", " "}
TopsTexts ==
    {Join(ls, "\n") : ls \in SeqsUpTo(SeqsUpTo(TopsChars, MaxLineLen), MaxLines)}
TopsDocument ==
    << Curve("DEPT", "m", <<Num(100), Num(200)>>), Curve("GR", "GAPI", <<Num(30), Num(80)>>) >>

InitTops == InitRender({TopsDocument}, {<< <<"GR">>, <<>>, <<>> >>}, TopsTexts)
SpecTops == InitTops /\ [][NextRender]_vars

(***************************************************************************)
(* Properties.                                                             *)
(***************************************************************************)
NoDepthMnemonic(doc) ==
    ~HasCurve(doc, "DEPT") /\ ~HasCurve(doc, "DEPTH") /\ ~HasCurve(doc, "MD")
        /\ ~HasCurve(doc, "TVD")
\* a sample is valid on the raw data: neither -999.25 nor not-a-number
RawValid(v) == ~IsNaN(v) /\ ~NumEq(v, Sentinel)
SameNum(a, b) == (IsNaN(a) /\ IsNaN(b)) \/ NumEq(a, b)
SameArray(a, b) == Len(a) = Len(b) /\ \A i \in DOMAIN a : SameNum(a[i], b[i])
RawData(curve) == CurveOf(las, curve).data
PresentNames(curve_names) == SelectSeq(curve_names, LAMBDA c : HasCurve(las, c))
MainTraces(fig) == SelectSeq(fig.traces, LAMBDA t : t.showlegend)
Overlays(fig) == SelectSeq(fig.traces, LAMBDA t : ~t.showlegend)
WellFormedLines(text) ==
    SelectSeq(Split(text, "\n"),
              LAMBDA line : Len(Split(line, ",")) = 2 /\ FloatOk(Split(line, ",")[2]))
TracksPlotted == pc \in {"L166", "L169", "L173", "done", "raised"}

\* C1: a run with an uploaded file stops before track rendering if and only if the
\* parse failed or none of DEPT, DEPTH, MD, TVD is in the document; otherwise it goes
\* on past depth resolution (to line 96).
C1_StopsIffParseOrDepthFailure ==
    (pc \in {"stopped", "L96"} /\ uploaded_file.kind # "none") =>
        (pc = "stopped" <=> (uploaded_file.kind = "bad" \/ NoDepthMnemonic(las)))

\* C2: no point of any trace (curve trace or shale overlay) comes from a sample that
\* is invalid on the raw data, and every raw-valid sample of a curve trace is plotted.
C2_TracesHoldExactlyRawValidSamples ==
    \A f \in DOMAIN figs : \A k \in DOMAIN figs[f].fig.traces :
        LET t == figs[f].fig.traces[k] IN
        /\ \A j \in DOMAIN t.idx : RawValid(RawData(t.curve)[t.idx[j]])
        /\ t.showlegend =>
              \A i \in DOMAIN RawData(t.curve) :
                  RawValid(RawData(t.curve)[i]) => InSeq(i, t.idx)

\* C3: parsing the formation-tops text never raises; lines that do not split into
\* two fields or whose second field is not numeric are dropped, and every other line
\* yields one top.
C3_TopsParseNeverRaises ==
    pc \notin {"L96", "L103"} =>
        /\ raised # "ValueError: could not convert string to float"
        /\ Len(tops_dict) = Len(WellFormedLines(tops_data))

\* C4: make_track raises no error for any list of names, absent ones included, also
\* when there are formation tops, and the figure has one curve trace per listed name
\* that is in the document.
C4_AbsentNamesSkippedWithoutError ==
    TracksPlotted =>
        /\ raised \notin {"UnboundLocalError: data",
                          "ValueError: min() arg is an empty sequence"}
        /\ \A f \in DOMAIN figs :
              Len(MainTraces(figs[f].fig)) = Len(PresentNames(figs[f].curve_names))

\* C5: under both unit systems the exported table has one row per sample, one column
\* of raw samples per selected curve, and a Depth column equal to the raw depth.
C5_ExportIsRawUnderBothUnitSystems ==
    (pc = "done" /\ df # NoDf) =>
        /\ df.rows = NSamples(las)
        /\ \A i \in DOMAIN (track1 \o track2 \o track3) :
              \E c \in DOMAIN df.columns :
                  /\ df.columns[c].key = (track1 \o track2 \o track3)[i]
                  /\ SameArray(df.columns[c].value,
                               RawData((track1 \o track2 \o track3)[i]))
        /\ \E c \in DOMAIN df.columns :
              /\ df.columns[c].key = "Depth"
              /\ SameArray(df.columns[c].value, RawData(depth_curve))

\* C6: depth resolution takes the first of DEPT, DEPTH, MD, TVD (in that order) that
\* the document holds, whatever the order of the document's curves; it yields no
\* depth (and reports an error) exactly when none of the four is there.
C6_DepthIsFirstPresentByPriority ==
    (pc = "L94" \/ (pc = "stopped" /\ uploaded_file.kind = "las")) =>
        LET P == <<"DEPT", "DEPTH", "MD", "TVD">>
            failed == InSeq("error: no valid depth column", banner)
        IN  /\ \A i \in 1..4 :
                  (HasCurve(las, P[i]) /\ \A j \in 1..(i - 1) : ~HasCurve(las, P[j])) =>
                      (depth_curve = P[i] /\ depth = RawData(P[i]) /\ ~failed)
            /\ NoDepthMnemonic(las) => (depth_curve = None /\ depth = <<>> /\ failed)
C6_Witness ==
    /\ pc = "L94"
    /\ Keys(las) = <<"MD", "DEPT">>
    /\ depth_curve = "DEPT"

\* C7: the tops overlaid on a track are one marker per well-formed line: two lines
\* with one name and two depths give two markers, none is lost or overwritten.
C7_OneMarkerPerWellFormedLine ==
    \A f \in DOMAIN figs :
        LET lines == WellFormedLines(tops_data)
            markers == figs[f].fig.markers
        IN  /\ Len(markers) = Len(lines)
            /\ \A i \in DOMAIN lines :
                  \E m \in DOMAIN markers :
                      /\ markers[m].text = Strip(Split(lines[i], ",")[1])
                      /\ NumEq(markers[m].y, Float(Split(lines[i], ",")[2]))

\* C8: with highlighting the overlay of GR holds exactly the positions whose raw
\* sample is valid and above 75, under either unit system and for every unit of GR;
\* no other curve and no track without highlighting has an overlay.
C8_ShaleOverlayOnRawThreshold ==
    \A f \in DOMAIN figs :
        LET hl == Overlays(figs[f].fig)
            gr == SelectSeq(PresentNames(figs[f].curve_names), LAMBDA c : c = "GR")
        IN  /\ Len(hl) = IF figs[f].highlight THEN Len(gr) ELSE 0
            /\ \A k \in DOMAIN hl :
                  /\ hl[k].curve = "GR"
                  /\ hl[k].idx = SelectSeq([i \in DOMAIN RawData("GR") |-> i],
                        LAMBDA i : /\ RawValid(RawData("GR")[i])
                                   /\ NumGt(RawData("GR")[i], Num(75)))

\* C9: under Metric, or when the curve's unit is not in the conversion registry, the
\* trace label carries the curve's own unit and the plotted values are the curve's
\* samples unchanged; every listed curve of the document has its trace.
C9_NoConversionKeepsUnitAndValues ==
    \A f \in DOMAIN figs :
        LET main == MainTraces(figs[f].fig)
            names == PresentNames(figs[f].curve_names)
        IN  /\ Len(main) = Len(names)
            /\ \A k \in DOMAIN main :
                  LET c == CurveOf(las, names[k]) IN
                  /\ main[k].curve = names[k]
                  /\ (unit_system = "Metric" \/
                      c.unit \notin {"m", "g/cm3", "us/ft", "ohm.m", "in", "m3/m3"}) =>
                        /\ main[k].name = <<names[k], c.unit>>
                        /\ main[k].x = Take(c.data, main[k].idx)
C9_Witness ==
    \E f \in DOMAIN figs : \E k \in DOMAIN figs[f].fig.traces :
        LET t == figs[f].fig.traces[k] IN
        /\ unit_system = "Imperial"
        /\ t.name = <<"GR", "GAPI">>
        /\ Len(t.x) = 2

\* C10: on every rerun and for every search query, the default of each of the three
\* track selectors is among the options the selector is given.
C10_DefaultsAmongOptions ==
    \A k \in DOMAIN selectors :
        \A i \in DOMAIN selectors[k].default :
            InSeq(selectors[k].default[i], selectors[k].options)

====
